---- MODULE Spec2Model ----
(***************************************************************************)
(* tapedeck: the five Django models of src/music/models.py and             *)
(* src/podcasts/models.py, as a record store.                              *)
(*                                                                         *)
(* The classes only declare fields; what a declaration means is fixed by   *)
(* the framework the classes inherit from (django.db.models.Model, a       *)
(* pre-2.0 release: __unicode__ and ForeignKey without on_delete).  Each   *)
(* definition below is the meaning of one declaration:                     *)
(*   - Model.full_clean() runs the field validators (ValidationError);     *)
(*   - Model.save() runs no validator: it writes the row and only the      *)
(*     column constraints of the generated schema can reject it            *)
(*     (NOT NULL, varchar(n), smallint CHECK >= 0, REFERENCES);            *)
(*   - Model.delete() collects the rows that reference the deleted one     *)
(*     through a ForeignKey (on_delete defaults to CASCADE) and deletes    *)
(*     them with it.                                                       *)
(* Text is a sequence of characters, a float is an integer number of       *)
(* seconds (FloatField constrains neither sign nor magnitude).             *)
(***************************************************************************)
EXTENDS Integers, Sequences, FiniteSets, TLC

\* Total number of records ever inserted, over the five tables.
MaxRecords == 4

\* CharField(max_length=100)
NameMaxLength == 100
\* URLField(): max_length defaults to 200
URLMaxLength == 200
\* PositiveSmallIntegerField: 0 .. 32767
SmallIntMax == 32767
\* Python None / SQL NULL in a reference; primary keys start at 1
None == 0

Models == {"Artist", "Album", "Song", "Publisher", "Episode"}
MusicModels == {"Artist", "Album", "Song"}
PodcastModels == {"Publisher", "Episode"}

VARIABLES db, seq, outcome
vars == <<db, seq, outcome>>

----------------------------------------------------------------------------
(* Text *)

Chars(n) == [i \in 1..n |-> "a"]

Lower == {"a", "b", "c", "d", "e", "f", "g", "h", "i", "j", "k", "l", "m",
          "n", "o", "p", "q", "r", "s", "t", "u", "v", "w", "x", "y", "z"}
Digit == {"0", "1", "2", "3", "4", "5", "6", "7", "8", "9"}

Range(s) == {s[i] : i \in DOMAIN s}

\* Smallest index >= from at which pat occurs in s, or 0.
Find(s, pat, from) ==
    LET hits == {i \in from..(Len(s) - Len(pat) + 1) :
                    SubSeq(s, i, i + Len(pat) - 1) = pat}
    IN  IF hits = {} THEN 0 ELSE CHOOSE i \in hits : \A j \in hits : i <= j

----------------------------------------------------------------------------
(* URLField: django.core.validators.URLValidator *)

URLSchemes == {<<"h","t","t","p">>, <<"h","t","t","p","s">>,
               <<"f","t","p">>, <<"f","t","p","s">>}

\* One label of a host name: letters, digits and inner hyphens.
LabelValid(l) ==
    /\ Len(l) \in 1..63
    /\ Range(l) \subseteq Lower \cup Digit \cup {"-"}
    /\ l[1] # "-"
    /\ l[Len(l)] # "-"

RECURSIVE Labels(_)
\* host.split('.')
Labels(h) ==
    LET dot == Find(h, <<".">>, 1)
    IN  IF dot = 0 THEN <<h>>
        ELSE <<SubSeq(h, 1, dot - 1)>> \o Labels(SubSeq(h, dot + 1, Len(h)))

\* A dotted host whose last label is an alphabetic top-level domain, or localhost.
HostValid(h) ==
    \/ h = <<"l","o","c","a","l","h","o","s","t">>
    \/ LET ls == Labels(h)
       IN  /\ Len(ls) >= 2
           /\ \A i \in 1..Len(ls) : LabelValid(ls[i])
           /\ Range(ls[Len(ls)]) \subseteq Lower \cup {"-"}
           /\ Len(ls[Len(ls)]) >= 2

\* scheme "://" host [ ("/" | "?" | "#") non-blank* ]
URLValid(u) ==
    LET sep == Find(u, <<":","/","/">>, 1)
    IN  /\ sep # 0
        /\ SubSeq(u, 1, sep - 1) \in URLSchemes
        /\ LET rest == SubSeq(u, sep + 3, Len(u))
               ends == {i \in 1..Len(rest) : rest[i] \in {"/", "?", "#"}}
               stop == IF ends = {} THEN Len(rest) + 1
                       ELSE CHOOSE i \in ends : \A j \in ends : i <= j
           IN  /\ HostValid(SubSeq(rest, 1, stop - 1))
               /\ " " \notin Range(rest)

----------------------------------------------------------------------------
(* The declarations *)

\* ForeignKey(...): the model a model's reference points to
ForeignKeyTargetCrossed(model) ==
    CASE model = "Album"   -> "Artist"
      [] model = "Song"    -> "Album"
      [] model = "Episode" -> "Artist"
      [] OTHER             -> "-"

ForeignKeyTarget(model) ==
    CASE model = "Album"   -> "Artist"
      [] model = "Song"    -> "Album"
      [] model = "Episode" -> "Publisher"
      [] OTHER             -> "-"

\* the column that holds the reference
ForeignKeyColumn(model) ==
    CASE model = "Album"   -> "artist_id"
      [] model = "Song"    -> "album_id"
      [] model = "Episode" -> "publisher_id"
      [] OTHER             -> "-"

HasForeignKey(model) == ForeignKeyTarget(model) # "-"

OnDeleteDoNothing(model) == "DO_NOTHING"

\* ForeignKey(X) with no on_delete argument: CASCADE
OnDelete(model) == "CASCADE"

----------------------------------------------------------------------------
(* The string representation *)

\* Model.__str__ of a class that defines no __unicode__: "<class> object"
DefaultUnicode(model) ==
    CASE model = "Publisher" ->
            <<"P","u","b","l","i","s","h","e","r"," ","o","b","j","e","c","t">>
      [] model = "Episode" ->
            <<"E","p","i","s","o","d","e"," ","o","b","j","e","c","t">>

\* __unicode__: Artist, Album and Song return self.name; Publisher and
\* Episode define none.
Unicode(model, inst) ==
    IF model \in {"Artist", "Album", "Song"} THEN inst.name
    ELSE DefaultUnicode(model)

----------------------------------------------------------------------------
(* Inputs: the attribute values a caller may put in an instance *)

\* A reference is None, the id of a row that was inserted (it may have been
\* deleted since), or an id the table never gave out.
Refs(model) == 0..(seq[ForeignKeyTarget(model)] + 1)

ShortName == <<"a">>
ArtistNames == {<<>>, ShortName, Chars(NameMaxLength + 1)}
AlbumNames == {Chars(NameMaxLength)}
SongNames == {ShortName}
PublisherNames == {ShortName}
EpisodeNames == {ShortName}
Images == {"cover.jpg"}
Files == {"track.mp3"}
Texts == {"text"}
Years == {0 - 1, 0, SmallIntMax, SmallIntMax + 1}
Lengths == {0 - 1, 0, 1}
URLs == { <<"h","t","t","p",":","/","/","a",".","f","m","/","x">>,
          <<"a",".","f","m">>,
          <<"j","s",":","/","/","a",".","f","m">> }

Instances(model) ==
    CASE model = "Artist" ->
            [name : ArtistNames, image : Images, bio : Texts]
      [] model = "Album" ->
            [artist : Refs(model), name : AlbumNames, image : Images,
             year_released : Years]
      [] model = "Song" ->
            [album : Refs(model), name : SongNames, original_file : Files,
             length : Lengths]
      [] model = "Publisher" ->
            [name : PublisherNames, url : URLs, image : Images, bio : Texts]
      [] model = "Episode" ->
            [publisher : Refs(model), name : EpisodeNames, description : Texts]

----------------------------------------------------------------------------
(* Model.full_clean(): the validators a field declaration installs *)

\* CharField(max_length=n): blank=False, MaxLengthValidator(n)
CharFieldClean(v, n) == Len(v) > 0 /\ Len(v) <= n

\* TextField(), ImageField(), FileField(): blank=False
RequiredClean(v) == v # ""

\* PositiveSmallIntegerField(): MinValueValidator(0), MaxValueValidator(32767)
PositiveSmallIntegerFieldClean(v) == v >= 0 /\ v <= SmallIntMax

\* FloatField(): any float
FloatFieldClean(v) == v \in Int

\* A plain CharField(max_length=200) in the place of the URLField
URLFieldCleanAsChar(v) == CharFieldClean(v, URLMaxLength)

\* URLField(): a CharField(max_length=200) with URLValidator
URLFieldClean(v) == CharFieldClean(v, URLMaxLength) /\ URLValid(v)

\* ForeignKey(X): null=False, and the referenced row must exist
ForeignKeyClean(model, v) ==
    v # None /\ v \in DOMAIN db[ForeignKeyTarget(model)]

Clean(model, inst) ==
    CASE model = "Artist" ->
            /\ CharFieldClean(inst.name, NameMaxLength)
            /\ RequiredClean(inst.image)
            /\ RequiredClean(inst.bio)
      [] model = "Album" ->
            /\ ForeignKeyClean(model, inst.artist)
            /\ CharFieldClean(inst.name, NameMaxLength)
            /\ RequiredClean(inst.image)
            /\ PositiveSmallIntegerFieldClean(inst.year_released)
      [] model = "Song" ->
            /\ ForeignKeyClean(model, inst.album)
            /\ CharFieldClean(inst.name, NameMaxLength)
            /\ RequiredClean(inst.original_file)
            /\ FloatFieldClean(inst.length)
      [] model = "Publisher" ->
            /\ CharFieldClean(inst.name, NameMaxLength)
            /\ URLFieldClean(inst.url)
            /\ RequiredClean(inst.image)
            /\ RequiredClean(inst.bio)
      [] model = "Episode" ->
            /\ ForeignKeyClean(model, inst.publisher)
            /\ CharFieldClean(inst.name, NameMaxLength)
            /\ RequiredClean(inst.description)

----------------------------------------------------------------------------
(* Model.save(): attribute values to column values, and the constraints   *)
(* of the columns the declarations generate                               *)

\* The first n characters of v.
Truncated(v, n) == IF Len(v) > n THEN SubSeq(v, 1, n) ELSE v

\* As Prep, but a name longer than its column is cut to fit.
PrepTruncated(model, inst) ==
    CASE model = "Artist" ->
            [name |-> Truncated(inst.name, NameMaxLength),
             image |-> inst.image, bio |-> inst.bio]
      [] model = "Album" ->
            [artist_id |-> inst.artist,
             name |-> Truncated(inst.name, NameMaxLength),
             image |-> inst.image, year_released |-> inst.year_released]
      [] model = "Song" ->
            [album_id |-> inst.album,
             name |-> Truncated(inst.name, NameMaxLength),
             original_file |-> inst.original_file, length |-> inst.length]
      [] model = "Publisher" ->
            [name |-> Truncated(inst.name, NameMaxLength), url |-> inst.url,
             image |-> inst.image, bio |-> inst.bio]
      [] model = "Episode" ->
            [publisher_id |-> inst.publisher,
             name |-> Truncated(inst.name, NameMaxLength),
             description |-> inst.description]

\* get_prep_value: a reference attribute is stored in its <name>_id column
Prep(model, inst) ==
    CASE model = "Artist" ->
            [name |-> inst.name, image |-> inst.image, bio |-> inst.bio]
      [] model = "Album" ->
            [artist_id |-> inst.artist, name |-> inst.name,
             image |-> inst.image, year_released |-> inst.year_released]
      [] model = "Song" ->
            [album_id |-> inst.album, name |-> inst.name,
             original_file |-> inst.original_file, length |-> inst.length]
      [] model = "Publisher" ->
            [name |-> inst.name, url |-> inst.url, image |-> inst.image,
             bio |-> inst.bio]
      [] model = "Episode" ->
            [publisher_id |-> inst.publisher, name |-> inst.name,
             description |-> inst.description]

\* Model.from_db: a row read back as an instance
FromDb(model, row) ==
    CASE model = "Artist" ->
            [name |-> row.name, image |-> row.image, bio |-> row.bio]
      [] model = "Album" ->
            [artist |-> row.artist_id, name |-> row.name,
             image |-> row.image, year_released |-> row.year_released]
      [] model = "Song" ->
            [album |-> row.album_id, name |-> row.name,
             original_file |-> row.original_file, length |-> row.length]
      [] model = "Publisher" ->
            [name |-> row.name, url |-> row.url, image |-> row.image,
             bio |-> row.bio]
      [] model = "Episode" ->
            [publisher |-> row.publisher_id, name |-> row.name,
             description |-> row.description]

\* varchar(n) NOT NULL
VarcharOk(v, n) == Len(v) <= n

\* smallint NOT NULL, the CHECK left out
SmallIntCheckOkSigned(v) == v <= SmallIntMax

\* smallint NOT NULL CHECK (>= 0)
SmallIntCheckOk(v) == v >= 0 /\ v <= SmallIntMax

\* double precision NOT NULL
DoubleOk(v) == v \in Int

\* integer NOT NULL, the REFERENCES constraint not enforced
ReferencesOkUnenforced(model, v) == v # None

\* integer NOT NULL REFERENCES <target> (id)
ReferencesOk(model, v) ==
    v # None /\ v \in DOMAIN db[ForeignKeyTarget(model)]

ColumnsOk(model, row) ==
    CASE model = "Artist" ->
            VarcharOk(row.name, NameMaxLength)
      [] model = "Album" ->
            /\ ReferencesOk(model, row.artist_id)
            /\ VarcharOk(row.name, NameMaxLength)
            /\ SmallIntCheckOk(row.year_released)
      [] model = "Song" ->
            /\ ReferencesOk(model, row.album_id)
            /\ VarcharOk(row.name, NameMaxLength)
            /\ DoubleOk(row.length)
      [] model = "Publisher" ->
            /\ VarcharOk(row.name, NameMaxLength)
            /\ VarcharOk(row.url, URLMaxLength)
      [] model = "Episode" ->
            /\ ReferencesOk(model, row.publisher_id)
            /\ VarcharOk(row.name, NameMaxLength)

\* full_clean() first when the caller validates, then the INSERT or UPDATE
SaveOutcome(model, inst, validate) ==
    IF validate /\ ~Clean(model, inst) THEN "ValidationError"
    ELSE IF ~ColumnsOk(model, Prep(model, inst)) THEN "DatabaseError"
    ELSE "ok"

----------------------------------------------------------------------------
(* Model.delete(): django.db.models.deletion.Collector *)

\* As Collected, but only the rows that reference the deleted rows directly.
CollectedOneHop(model, root, ids) ==
    IF model = root THEN ids
    ELSE IF HasForeignKey(model) /\ ForeignKeyTarget(model) = root
    THEN {c \in DOMAIN db[model] :
            db[model][c][ForeignKeyColumn(model)] \in ids}
    ELSE {}

RECURSIVE Collected(_, _, _)
\* The rows of model that go when the rows ids of model root are deleted.
Collected(model, root, ids) ==
    IF model = root THEN ids
    ELSE IF HasForeignKey(model) /\ OnDelete(model) = "CASCADE"
    THEN {c \in DOMAIN db[model] :
            db[model][c][ForeignKeyColumn(model)]
                \in Collected(ForeignKeyTarget(model), root, ids)}
    ELSE {}

----------------------------------------------------------------------------
(* The record store *)

Inserted ==
    seq["Artist"] + seq["Album"] + seq["Song"]
        + seq["Publisher"] + seq["Episode"]

Init ==
    /\ db = [m \in Models |-> <<>>]
    /\ seq = [m \in Models |-> 0]
    /\ outcome = "none"

\* save() of an instance without a primary key: INSERT, the AutoField id
\* is the next value of the table's sequence.
Create(model, inst, validate) ==
    /\ Inserted < MaxRecords
    /\ outcome' = SaveOutcome(model, inst, validate)
    /\ IF outcome' = "ok"
       THEN /\ db' = [db EXCEPT ![model] =
                        @ @@ (seq[model] + 1 :> Prep(model, inst))]
            /\ seq' = [seq EXCEPT ![model] = @ + 1]
       ELSE UNCHANGED <<db, seq>>

\* save() of an instance that carries the primary key of a stored row: UPDATE
Update(model, id, inst, validate) ==
    /\ id \in DOMAIN db[model]
    /\ outcome' = SaveOutcome(model, inst, validate)
    /\ IF outcome' = "ok"
       THEN db' = [db EXCEPT ![model][id] = Prep(model, inst)]
       ELSE UNCHANGED db
    /\ UNCHANGED seq

\* delete(): the row and every row collected through a ForeignKey
Delete(model, id) ==
    /\ id \in DOMAIN db[model]
    /\ db' = [m \in Models |->
                [i \in DOMAIN db[m] \ Collected(m, model, {id}) |-> db[m][i]]]
    /\ outcome' = "ok"
    /\ UNCHANGED seq

ArtistCreate(inst, validate) == Create("Artist", inst, validate)
ArtistUpdate(id, inst, validate) == Update("Artist", id, inst, validate)
ArtistDelete(id) == Delete("Artist", id)
AlbumCreate(inst, validate) == Create("Album", inst, validate)
AlbumUpdate(id, inst, validate) == Update("Album", id, inst, validate)
AlbumDelete(id) == Delete("Album", id)
SongCreate(inst, validate) == Create("Song", inst, validate)
SongUpdate(id, inst, validate) == Update("Song", id, inst, validate)
SongDelete(id) == Delete("Song", id)
PublisherCreate(inst, validate) == Create("Publisher", inst, validate)
PublisherUpdate(id, inst, validate) == Update("Publisher", id, inst, validate)
PublisherDelete(id) == Delete("Publisher", id)
EpisodeCreate(inst, validate) == Create("Episode", inst, validate)
EpisodeUpdate(id, inst, validate) == Update("Episode", id, inst, validate)
EpisodeDelete(id) == Delete("Episode", id)

Ids == 1..MaxRecords

Next ==
    \/ \E inst \in Instances("Artist"), v \in BOOLEAN : ArtistCreate(inst, v)
    \/ \E id \in Ids, inst \in Instances("Artist"), v \in BOOLEAN :
            ArtistUpdate(id, inst, v)
    \/ \E id \in Ids : ArtistDelete(id)
    \/ \E inst \in Instances("Album"), v \in BOOLEAN : AlbumCreate(inst, v)
    \/ \E id \in Ids, inst \in Instances("Album"), v \in BOOLEAN :
            AlbumUpdate(id, inst, v)
    \/ \E id \in Ids : AlbumDelete(id)
    \/ \E inst \in Instances("Song"), v \in BOOLEAN : SongCreate(inst, v)
    \/ \E id \in Ids, inst \in Instances("Song"), v \in BOOLEAN :
            SongUpdate(id, inst, v)
    \/ \E id \in Ids : SongDelete(id)
    \/ \E inst \in Instances("Publisher"), v \in BOOLEAN :
            PublisherCreate(inst, v)
    \/ \E id \in Ids, inst \in Instances("Publisher"), v \in BOOLEAN :
            PublisherUpdate(id, inst, v)
    \/ \E id \in Ids : PublisherDelete(id)
    \/ \E inst \in Instances("Episode"), v \in BOOLEAN : EpisodeCreate(inst, v)
    \/ \E id \in Ids, inst \in Instances("Episode"), v \in BOOLEAN :
            EpisodeUpdate(id, inst, v)
    \/ \E id \in Ids : EpisodeDelete(id)

Spec == Init /\ [][Next]_vars

----------------------------------------------------------------------------
(* Properties *)

Artists == db["Artist"]
Albums == db["Album"]
Songs == db["Song"]
Publishers == db["Publisher"]
Episodes == db["Episode"]

\* Some row of the model was inserted and is no longer stored.
SomeDeleted(model) == \E i \in 1..seq[model] : i \notin DOMAIN db[model]

Rejected == {"ValidationError", "DatabaseError"}

MusicStep ==
    \E m \in MusicModels :
        \/ \E inst \in Instances(m), v \in BOOLEAN : Create(m, inst, v)
        \/ \E id \in Ids, inst \in Instances(m), v \in BOOLEAN :
                Update(m, id, inst, v)
        \/ \E id \in Ids : Delete(m, id)

PodcastStep ==
    \E m \in PodcastModels :
        \/ \E inst \in Instances(m), v \in BOOLEAN : Create(m, inst, v)
        \/ \E id \in Ids, inst \in Instances(m), v \in BOOLEAN :
                Update(m, id, inst, v)
        \/ \E id \in Ids : Delete(m, id)

\* A successful step that changes no table but the model's: what a create or
\* an update of the model is, stated on the two states alone.
Touches(m) ==
    /\ outcome' = "ok"
    /\ \A o \in Models \ {m} : db'[o] = db[o]

\* ... and that took an id from the model's sequence: a create.
Inserts(m) == Touches(m) /\ seq'[m] = seq[m] + 1

\* ... and that left every row of the model but id as it was: an update of id.
Rewrites(m, id) ==
    /\ Touches(m)
    /\ seq' = seq
    /\ id \in DOMAIN db[m]
    /\ DOMAIN db'[m] = DOMAIN db[m]
    /\ \A j \in DOMAIN db[m] \ {id} : db'[m][j] = db[m][j]

\* C1: every stored Album's artist is the id of a stored Artist, in every
\* reachable state, also after Artists were deleted.
AlbumArtistExists ==
    \A a \in DOMAIN Albums : Albums[a].artist_id \in DOMAIN Artists

\* An Artist and an Album are gone, and an Album is still stored.
AlbumSurvivesArtistDelete ==
    /\ SomeDeleted("Artist")
    /\ SomeDeleted("Album")
    /\ DOMAIN Albums # {}

\* C2: every stored Song's album is the id of a stored Album, in every
\* reachable state, also after the Album or the Album's Artist was deleted.
SongAlbumExists ==
    \A s \in DOMAIN Songs : Songs[s].album_id \in DOMAIN Albums

\* An Artist was deleted with its Album and the Album's Song, two hops down,
\* while another Artist stays.
SongGoneWithArtist ==
    /\ SomeDeleted("Artist")
    /\ SomeDeleted("Album")
    /\ SomeDeleted("Song")
    /\ DOMAIN Artists # {}

\* C3: every stored Episode's publisher is the id of a stored Publisher.
EpisodePublisherExists ==
    \A e \in DOMAIN Episodes :
        Episodes[e].publisher_id \in DOMAIN Publishers

\* A Publisher and an Episode are gone, and an Episode is still stored.
EpisodeSurvivesPublisherDelete ==
    /\ SomeDeleted("Publisher")
    /\ SomeDeleted("Episode")
    /\ DOMAIN Episodes # {}

\* C4: every stored Song has length >= 0.
SongLengthNonNegative ==
    \A s \in DOMAIN Songs : Songs[s].length >= 0

\* C5: every stored Album has year_released >= 0.
AlbumYearNonNegative ==
    \A a \in DOMAIN Albums : Albums[a].year_released >= 0

\* An Album with year_released 0 is stored and the last save was refused by
\* the database.
AlbumYearZeroStored ==
    /\ \E a \in DOMAIN Albums : Albums[a].year_released = 0
    /\ outcome = "DatabaseError"

UnicodeIsName ==
    \A m \in Models : \A i \in DOMAIN db[m] :
        Unicode(m, FromDb(m, db[m][i])) = db[m][i].name

\* The constraints the data model states for a record: a required
\* reference is set, year_released is a non-negative small integer,
\* length is not negative, url is well formed.
ViolatesConstraint(m, inst) ==
    CASE m = "Album" ->
            \/ inst.artist = None
            \/ inst.year_released < 0
            \/ inst.year_released > SmallIntMax
      [] m = "Song" -> inst.album = None \/ inst.length < 0
      [] m = "Publisher" -> ~URLValid(inst.url)
      [] m = "Episode" -> inst.publisher = None
      [] OTHER -> FALSE

\* C9: a create or update of a record that violates a field-level
\* constraint is refused and leaves the stored records unchanged.
ViolationRejected ==
    [][\A m \in Models : \A inst \in Instances(m), v \in BOOLEAN :
          /\ ViolatesConstraint(m, inst)
          /\ \/ Create(m, inst, v)
             \/ \E id \in Ids : Update(m, id, inst, v)
          => outcome' \in Rejected /\ db' = db]_vars

\* C10: a create, update or delete of an Artist, Album or Song leaves the
\* Publisher and Episode tables unchanged, and a create, update or delete
\* of a Publisher or Episode leaves the Artist, Album and Song tables
\* unchanged.
GroupsIndependent ==
    [][/\ (\A m \in PodcastModels : db'[m] = db[m]) \/ ~MusicStep
       /\ (\A m \in MusicModels : db'[m] = db[m]) \/ ~PodcastStep]_vars

\* An Artist was deleted with its Album while a Publisher and its Episode
\* are stored.
CascadeBesidePodcasts ==
    /\ SomeDeleted("Artist")
    /\ SomeDeleted("Album")
    /\ DOMAIN Publishers # {}
    /\ DOMAIN Episodes # {}

====
